---- MODULE Spec2Model ----
(***************************************************************************)
(* TinyLink: the short-code allocation and redirect-tracking subsystem of  *)
(* server.js, over the links table of db/init.js.                          *)
(*                                                                         *)
(* Every HTTP handler is an async function: the code between two awaits    *)
(* runs without interruption, and every pool.query() is one SQL statement  *)
(* that PostgreSQL executes atomically.  A handler is therefore a process  *)
(* whose steps are "the statement awaited executes, and the handler runs   *)
(* on to its next statement or to its response".  Strings are tuples of    *)
(* one-character strings, so that the validators compute on characters.    *)
(***************************************************************************)
EXTENDS Integers, Sequences, FiniteSets, TLC

\* ------------------------------------------------------------------ bounds
\* Request slots that can be in flight at the same time.
NumProcs == 2
\* Requests accepted in one behaviour (bounds ids, clicks and creation counts).
MaxRequests == 2
\* Last value of the database clock NOW().
MaxTime == 1
\* Sampled outcome streams of Math.random() behind generateShortCode().
NumStreams == 1

\* Outcomes of Math.random() tried for each character of a generated code.
NumDraws == 3
\* Longest string handed to isValidCode on its own.
MaxProbeLen == 9

Procs == 1..NumProcs

\* --------------------------------------------------------------- characters
\* server.js:30  const chars = 'ABC...XYZabc...xyz0123456789'
chars ==
  << "A","B","C","D","E","F","G","H","I","J","K","L","M",
     "N","O","P","Q","R","S","T","U","V","W","X","Y","Z",
     "a","b","c","d","e","f","g","h","i","j","k","l","m",
     "n","o","p","q","r","s","t","u","v","w","x","y","z",
     "0","1","2","3","4","5","6","7","8","9" >>

\* The character class [A-Za-z0-9] of the regular expression of isValidCode.
Alnum ==
  { "A","B","C","D","E","F","G","H","I","J","K","L","M",
    "N","O","P","Q","R","S","T","U","V","W","X","Y","Z",
    "a","b","c","d","e","f","g","h","i","j","k","l","m",
    "n","o","p","q","r","s","t","u","v","w","x","y","z",
    "0","1","2","3","4","5","6","7","8","9" }

Alpha ==
  { "A","B","C","D","E","F","G","H","I","J","K","L","M",
    "N","O","P","Q","R","S","T","U","V","W","X","Y","Z",
    "a","b","c","d","e","f","g","h","i","j","k","l","m",
    "n","o","p","q","r","s","t","u","v","w","x","y","z" }

\* ASCII lower-casing, as the URL parser applies it to the scheme.
ToLower(c) ==
  IF \E i \in 1..26 : chars[i] = c
    THEN chars[(CHOOSE i \in 1..26 : chars[i] = c) + 26]
    ELSE c

\* ------------------------------------------------------------ code allocator
\* Outcome of Math.floor(Math.random() * 3) in stream k (server.js:31).
RandLen(k) == (k - 1) % 3

\* Outcome of Math.floor(Math.random() * chars.length) for character i of
\* stream k (server.js:34).
RandChar(k, i) == ((k - 1) * (i + 13)) % Len(chars)

\* server.js:29-37
generateShortCode(k) ==
  [i \in 1..(RandLen(k) + 6) |-> chars[RandChar(k, i) + 1]]

Streams == 1..NumStreams
GenCodes == { generateShortCode(k) : k \in Streams }

\* A mutant of isValidCode: the upper bound of the length is not enforced.
isValidCodeNoUpper(code) ==
  /\ Len(code) >= 6
  /\ \A i \in 1..Len(code) : code[i] \in Alnum

\* server.js:48-51  /^[A-Za-z0-9]{6,8}$/.test(code)
isValidCode(code) ==
  /\ Len(code) >= 6
  /\ Len(code) <= 8
  /\ \A i \in 1..Len(code) : code[i] \in Alnum

\* ------------------------------------------------------------- URL parsing
\* new URL(url) without a base, as the WHATWG URL parser decides success:
\* a scheme is required; a special scheme other than file needs a host.
SchemeChars == Alnum \cup {"+", "-", "."}

\* Position of the ":" that ends the scheme, 0 when the input has no scheme.
SchemeEnd(url) ==
  IF /\ Len(url) >= 2
     /\ url[1] \in Alpha
     /\ \E j \in 2..Len(url) :
          /\ url[j] = ":"
          /\ \A i \in 2..(j - 1) : url[i] \in SchemeChars
    THEN CHOOSE j \in 2..Len(url) :
           /\ url[j] = ":"
           /\ \A i \in 2..(j - 1) : url[i] \in SchemeChars
    ELSE 0

Scheme(url) == [i \in 1..(SchemeEnd(url) - 1) |-> ToLower(url[i])]

SpecialSchemes ==
  { <<"h","t","t","p">>, <<"h","t","t","p","s">>, <<"f","t","p">>,
    <<"w","s">>, <<"w","s","s">>, <<"f","i","l","e">> }

Slashes == {"/", "\\"}
HostEnders == {"/", "\\", "?", "#"}
ForbiddenHost == {" ", "<", ">", "^", "|"}

\* First position after the scheme's ":" and the slashes that follow it.
HostStart(url) ==
  IF \E j \in (SchemeEnd(url) + 1)..Len(url) : url[j] \notin Slashes
    THEN CHOOSE j \in (SchemeEnd(url) + 1)..Len(url) :
           /\ url[j] \notin Slashes
           /\ \A i \in (SchemeEnd(url) + 1)..(j - 1) : url[i] \in Slashes
    ELSE Len(url) + 1

\* First position after the host.
HostStop(url) ==
  IF \E j \in HostStart(url)..Len(url) : url[j] \in HostEnders
    THEN CHOOSE j \in HostStart(url)..Len(url) :
           /\ url[j] \in HostEnders
           /\ \A i \in HostStart(url)..(j - 1) : url[i] \notin HostEnders
    ELSE Len(url) + 1

Host(url) == [i \in 1..(HostStop(url) - HostStart(url)) |-> url[HostStart(url) + i - 1]]

\* server.js:39-46  try { new URL(url); return true } catch { return false }
isValidUrl(url) ==
  /\ SchemeEnd(url) > 0
  /\ (Scheme(url) \in SpecialSchemes /\ Scheme(url) # <<"f","i","l","e">>)
       => /\ Len(Host(url)) > 0
          /\ \A i \in 1..Len(Host(url)) : Host(url)[i] \notin ForbiddenHost

\* An absolute URL whose scheme is http or https.
IsHttpUrl(url) ==
  /\ isValidUrl(url)
  /\ Scheme(url) \in { <<"h","t","t","p">>, <<"h","t","t","p","s">> }


\* ------------------------------------------------------------------ inputs
\* A JSON body field: missing (undefined), or a string.
Absent == [given |-> FALSE, text |-> <<>>]
Str(t) == [given |-> TRUE, text |-> t]

\* JavaScript truthiness of a body field: undefined and "" are falsy.
Truthy(v) == v.given /\ v.text # <<>>

UrlHttps == <<"h","t","t","p","s",":","/","/","a">>
UrlFtp == <<"f","t","p",":","/","/","a">>
UrlNotAUrl == <<"n","o","t","-","a","-","u","r","l">>

\* target_url values a client sends.
UrlInputs == { Str(UrlHttps), Str(UrlFtp), Str(UrlNotAUrl) }

CodeAbcdef == <<"a","b","c","d","e","f">>
CodeShort == <<"a","b","c">>

\* short_code values a client sends.
CodeInputs == { Absent, Str(CodeAbcdef), Str(CodeShort) }

\* target_url values that new URL() throws on: none, empty, no scheme, and an
\* http scheme without a host.
UrlHttpNoHost == <<"h","t","t","p",":","/","/">>
NotAUrlInputs == { Absent, Str(<<>>), Str(UrlNotAUrl), Str(UrlHttpNoHost) }

\* short_code strings outside [A-Za-z0-9]{6,8}: empty, too short, a character
\* outside the class, too long.
CodeDashed == <<"a","b","c","-","1","2">>
CodeLong == <<"a","b","c","d","e","f","g","h","i">>
MalformedCodeInputs == { Str(<<>>), Str(CodeShort), Str(CodeDashed), Str(CodeLong) }

\* A second code inside the class, with upper case and digits.
CodeMixed == <<"A","b","3","d","E","f","9">>

\* What one client sends when the whole range of bodies is of interest.
UrlInputsWide == UrlInputs \cup NotAUrlInputs
CodeInputsWide == CodeInputs \cup MalformedCodeInputs \cup { Str(CodeMixed) }

\* The :code path parameter of get, delete and redirect.
CodeParams == { CodeAbcdef } \cup GenCodes

\* ------------------------------------------------------------------- state
VARIABLES
  pool,        \* TRUE iff db/config.js built a Pool (module.exports = pool)
  links,       \* the rows of table links
  nextId,      \* next value of the SERIAL sequence behind links.id
  now,         \* the database clock, NOW()
  pc,          \* per request slot: the statement the handler awaits
  req,         \* per request slot: the request being served
  loc,         \* per request slot: the handler's local variables
  resp,        \* per request slot: the response sent
  started,     \* requests accepted so far
  redirected,  \* per link id: redirects (302) answered for it
  bumped,      \* per link id: creates answered 200 after an UPDATE of it
  removed,     \* per link id: deletes answered 200 that returned it
  gen,         \* a call of generateShortCode: its position, length and code
  probe        \* a string handed to isValidCode, and what it returned

vars == <<pool, links, nextId, now, pc, req, loc, resp, started, redirected,
          bumped, removed, gen, probe>>

Ids == 1..(MaxRequests + 2)

NoReq == [op |-> "none", url |-> Absent, sc |-> Absent, code |-> <<>>]
\* code and existingUrl.rows[0].id of the create handler; turn is the parity of
\* the turns the uniqueness loop has taken.
NoLoc == [code |-> <<>>, foundId |-> 0, turn |-> 0]
NoGen == [at |-> "idle", length |-> 0, code |-> <<>>]
NoResp == [status |-> 0, error |-> "", message |-> "", body |-> <<>>, location |-> <<>>]

Reply(status) == [NoResp EXCEPT !.status = status]
ErrorReply(status, text) == [NoResp EXCEPT !.status = status, !.error = text]

\* db/init.js:11-20: the columns of a row.  last_clicked is <<>> for NULL.
NewRowCountsFromZero(id, code, url, t) ==
  [id |-> id, short_code |-> code, target_url |-> url, total_clicks |-> 0,
   creation_count |-> 0, last_clicked |-> <<>>, created_at |-> t, updated_at |-> t]

NewRowClickedAtInsert(id, code, url, t) ==
  [id |-> id, short_code |-> code, target_url |-> url, total_clicks |-> 0,
   creation_count |-> 1, last_clicked |-> <<t>>, created_at |-> t, updated_at |-> t]

NewRow(id, code, url, t) ==
  [ id |-> id, short_code |-> code, target_url |-> url,
    total_clicks |-> 0, creation_count |-> 1, last_clicked |-> <<>>,
    created_at |-> t, updated_at |-> t ]

\* The table outlives the server (CREATE TABLE IF NOT EXISTS): at start it is
\* empty, or holds a Link that an earlier run created with a custom code.
SeedLinks == { {}, { NewRow(1, CodeAbcdef, UrlHttps, 0) } }

Init ==
  /\ pool \in BOOLEAN
  /\ links \in SeedLinks
  /\ nextId = Cardinality(links) + 1
  /\ now = 0
  /\ pc = [p \in Procs |-> "idle"]
  /\ req = [p \in Procs |-> NoReq]
  /\ loc = [p \in Procs |-> NoLoc]
  /\ resp = [p \in Procs |-> NoResp]
  /\ started = 0
  /\ redirected = [i \in Ids |-> 0]
  /\ bumped = [i \in Ids |-> 0]
  /\ removed = [i \in Ids |-> 0]
  /\ gen = NoGen
  /\ probe = [text |-> <<>>, valid |-> isValidCode(<<>>)]

\* -------------------------------------------------------------- statements
\* A mutant of RowsByCode: the lookup finds nothing.
RowsByCodeNone(code) == {}

RowsByCodeAny(code) == links

\* SELECT ... FROM links WHERE short_code = $1
RowsByCode(code) == { r \in links : r.short_code = code }

\* SELECT ... FROM links WHERE target_url = $1   (exact string match)
RowsByUrl(url) == { r \in links : r.target_url = url }

\* A mutant of UniqueViolation: the column has no UNIQUE constraint.
NoUniqueConstraint(code) == FALSE

\* db/init.js:13  short_code VARCHAR(8) UNIQUE NOT NULL
UniqueViolation(code) == \E r \in links : r.short_code = code

\* A mutant of ClickedRow: the statement records the time and forgets the count.
ClickedRowNoCount(r, t) == [r EXCEPT !.last_clicked = <<t>>]

\* server.js:232  SET total_clicks = total_clicks + 1, last_clicked = NOW()
ClickedRowKeepsTime(r, t) == [r EXCEPT !.total_clicks = @ + 1]

ClickedRowCountsDown(r, t) ==
  [r EXCEPT !.total_clicks = @ - 1, !.last_clicked = <<t>>]

ClickedRowCountsTwice(r, t) ==
  [r EXCEPT !.total_clicks = @ + 2, !.last_clicked = <<t>>]

ClickedRow(r, t) == [r EXCEPT !.total_clicks = @ + 1, !.last_clicked = <<t>>]

\* A mutant of BumpedRow: the bump also resets the click counter.
BumpedRowResetsClicks(r, t) ==
  [r EXCEPT !.creation_count = @ + 1, !.updated_at = t, !.total_clicks = 0]

\* A mutant of BumpedRow: the counter is set instead of incremented.
BumpedRowSetsTwo(r, t) == [r EXCEPT !.creation_count = 2, !.updated_at = t]

\* server.js:120  SET creation_count = creation_count + 1, updated_at = NOW()
BumpedRowRewritesUrl(r, t) ==
  [r EXCEPT !.creation_count = @ + 1, !.updated_at = t, !.target_url = UrlFtp]

BumpedRowKeepsCount(r, t) == [r EXCEPT !.updated_at = t]

BumpedRow(r, t) == [r EXCEPT !.creation_count = @ + 1, !.updated_at = t]

\* ORDER BY created_at DESC: every ordering of the rows the clause allows.
OrderedByCreatedAsc(rows) ==
  { s \in [1..Cardinality(rows) -> rows] :
      /\ \A i, j \in 1..Cardinality(rows) : i # j => s[i] # s[j]
      /\ \A i, j \in 1..Cardinality(rows) : i < j => s[i].created_at <= s[j].created_at }

OrderedByCreatedDesc(rows) ==
  { s \in [1..Cardinality(rows) -> rows] :
      /\ \A i, j \in 1..Cardinality(rows) : i # j => s[i] # s[j]
      /\ \A i, j \in 1..Cardinality(rows) : i < j => s[i].created_at >= s[j].created_at }

\* NOW() in a statement: the clock never runs backwards, and any amount of
\* time may have passed since it was last read.
ReadClock(t) ==
  /\ t \in now..MaxTime
  /\ now' = t

\* ------------------------------------------------------------------ helpers
Done(p, r) ==
  /\ pc' = [pc EXCEPT ![p] = "done"]
  /\ resp' = [resp EXCEPT ![p] = r]

Await(p, label) ==
  /\ pc' = [pc EXCEPT ![p] = label]
  /\ UNCHANGED resp

\* A slot takes a request when it serves none: the locals are fresh.  Slots
\* are interchangeable, so unused slots are taken in order.
Accept(p, request) ==
  /\ pc[p] \in {"idle", "done"}
  /\ \A q \in Procs : q < p => pc[q] # "idle"
  /\ started < MaxRequests
  /\ started' = started + 1
  /\ req' = [req EXCEPT ![p] = request]
  /\ loc' = [loc EXCEPT ![p] = NoLoc]

\* The handler issues its first statement; nothing has been answered yet.
Begin(p, label) ==
  /\ pc' = [pc EXCEPT ![p] = label]
  /\ resp' = [resp EXCEPT ![p] = NoResp]

\* INSERT INTO links (...) VALUES ($1, $2, 0, 1, NOW(), NOW()) RETURNING ...
\* nextval() of the SERIAL sequence is consumed whether or not the UNIQUE
\* constraint lets the row in; a violation is thrown and caught at
\* server.js:153-156.
InsertLinkOverwrites(p, code, url) ==
  /\ nextId' = nextId + 1
  /\ \E t \in 0..MaxTime :
       /\ ReadClock(t)
       /\ IF UniqueViolation(code)
            THEN /\ links' = (links \ RowsByCode(code)) \cup { NewRow(nextId, code, url, t) }
                 /\ Done(p, ErrorReply(500, "Internal server error"))
            ELSE /\ links' = links \cup { NewRow(nextId, code, url, t) }
                 /\ Done(p, [Reply(201) EXCEPT !.body = << NewRow(nextId, code, url, t) >>])

InsertLinkReusesId(p, code, url) ==
  /\ nextId' = nextId + 1
  /\ \E t \in 0..MaxTime :
       /\ ReadClock(t)
       /\ LET free == { i \in Ids : \A r \in links : r.id # i }
              id == CHOOSE i \in free : \A j \in free : i <= j
          IN  IF UniqueViolation(code)
                THEN /\ UNCHANGED links
                     /\ Done(p, ErrorReply(500, "Internal server error"))
                ELSE /\ links' = links \cup { NewRow(id, code, url, t) }
                     /\ Done(p, [Reply(201) EXCEPT !.body = << NewRow(id, code, url, t) >>])

InsertLink(p, code, url) ==
  /\ nextId' = nextId + 1
  /\ \E t \in 0..MaxTime :
       /\ ReadClock(t)
       /\ IF UniqueViolation(code)
            THEN /\ UNCHANGED links
                 /\ Done(p, ErrorReply(500, "Internal server error"))
            ELSE /\ links' = links \cup { NewRow(nextId, code, url, t) }
                 /\ Done(p, [Reply(201) EXCEPT !.body = << NewRow(nextId, code, url, t) >>])

\* ---------------------------------------------------- POST /api/links (create)
\* server.js:73-92: the validation that runs before the first statement.
CreateStartCodeFirst(p, url, sc) ==
  /\ Accept(p, [NoReq EXCEPT !.op = "create", !.url = url, !.sc = sc])
  /\ UNCHANGED <<gen, probe, bumped, removed, pool, links, nextId, now, redirected>>
  /\ IF Truthy(sc) /\ ~isValidCode(sc.text)
       THEN Done(p, ErrorReply(400, "Code must be 6-8 alphanumeric characters"))
     ELSE IF ~Truthy(url) \/ ~isValidUrl(url.text)
       THEN Done(p, ErrorReply(400, "Invalid URL"))
     ELSE IF ~pool
       THEN Done(p, ErrorReply(503, "Database not available"))
     ELSE IF Truthy(sc)
       THEN Begin(p, "custom_select")
     ELSE Begin(p, "url_select")

CreateStart(p, url, sc) ==
  /\ Accept(p, [NoReq EXCEPT !.op = "create", !.url = url, !.sc = sc])
  /\ UNCHANGED <<gen, probe, bumped, removed, pool, links, nextId, now, redirected>>
  /\ IF ~Truthy(url) \/ ~isValidUrl(url.text)
       THEN Done(p, ErrorReply(400, "Invalid URL"))
     ELSE IF ~pool
       THEN Done(p, ErrorReply(503, "Database not available"))
     ELSE IF Truthy(sc) /\ ~isValidCode(sc.text)
       THEN Done(p, ErrorReply(400, "Code must be 6-8 alphanumeric characters"))
     ELSE IF Truthy(sc)
       THEN Begin(p, "custom_select")
     ELSE Begin(p, "url_select")

\* server.js:93-100: SELECT by short_code, 409 when a row has the code.
CustomSelectMerges(p) ==
  /\ pc[p] = "custom_select"
  /\ UNCHANGED <<gen, probe, bumped, removed, pool, links, nextId, now, req, started, redirected>>
  /\ IF RowsByCode(req[p].sc.text) # {}
       THEN UNCHANGED loc /\ Done(p, ErrorReply(409, "Code already exists"))
     ELSE IF RowsByUrl(req[p].url.text) # {}
       THEN /\ \E r \in RowsByUrl(req[p].url.text) :
                 loc' = [loc EXCEPT ![p].foundId = r.id]
            /\ Await(p, "url_update")
     ELSE UNCHANGED loc /\ Await(p, "custom_insert")

CustomSelect(p) ==
  /\ pc[p] = "custom_select"
  /\ UNCHANGED <<gen, probe, bumped, removed, pool, links, nextId, now, req, loc, started, redirected>>
  /\ IF RowsByCode(req[p].sc.text) # {}
       THEN Done(p, ErrorReply(409, "Code already exists"))
       ELSE Await(p, "custom_insert")

\* server.js:103-108: INSERT with the custom code, 201.
CustomInsert(p) ==
  /\ pc[p] = "custom_insert"
  /\ InsertLink(p, req[p].sc.text, req[p].url.text)
  /\ UNCHANGED <<gen, probe, bumped, removed, pool, req, loc, started, redirected>>

\* server.js:112-131: SELECT by target_url; rows[0] of the result is any of the
\* matching rows (the statement has no ORDER BY).  Without a match the first
\* candidate code is generated.
UrlSelect(p) ==
  /\ pc[p] = "url_select"
  /\ UNCHANGED <<gen, probe, bumped, removed, pool, links, nextId, now, req, started, redirected>>
  /\ IF RowsByUrl(req[p].url.text) # {}
       THEN /\ \E r \in RowsByUrl(req[p].url.text) :
                 loc' = [loc EXCEPT ![p].foundId = r.id]
            /\ Await(p, "url_update")
       ELSE /\ \E k \in Streams :
                 loc' = [loc EXCEPT ![p].code = generateShortCode(k)]
            /\ Await(p, "code_check")

\* server.js:119-127: UPDATE ... WHERE id = $1 RETURNING ..., then 200 with
\* { ...updated.rows[0], message }; the spread of undefined adds no field.
UrlUpdate(p) ==
  /\ pc[p] = "url_update"
  /\ UNCHANGED <<gen, probe, removed, pool, nextId, req, loc, started, redirected>>
  /\ LET hit == { r \in links : r.id = loc[p].foundId }
         msg == "URL already exists. Creation count incremented."
     IN  \E t \in 0..MaxTime :
           /\ ReadClock(t)
           /\ IF hit # {}
                THEN \E r \in hit :
                       /\ links' = (links \ {r}) \cup { BumpedRow(r, t) }
                       /\ bumped' = [bumped EXCEPT ![r.id] = @ + 1]
                       /\ Done(p, [Reply(200) EXCEPT !.message = msg,
                                                     !.body = << BumpedRow(r, t) >>])
                ELSE /\ UNCHANGED <<links, bumped>>
                     /\ Done(p, [Reply(200) EXCEPT !.message = msg])

\* server.js:135-145: one turn of the uniqueness loop: SELECT by short_code;
\* leave the loop when no row has the candidate, else generate another.
CodeCheck(p) ==
  /\ pc[p] = "code_check"
  /\ UNCHANGED <<gen, probe, bumped, removed, pool, links, nextId, now, req, started, redirected>>
  /\ IF RowsByCode(loc[p].code) = {}
       THEN /\ UNCHANGED loc
            /\ Await(p, "auto_insert")
       ELSE /\ \E k \in Streams :
                 loc' = [loc EXCEPT ![p].code = generateShortCode(k),
                                    ![p].turn = (@ + 1) % 2]
            /\ Await(p, "code_check")

\* server.js:147-152: INSERT with the generated code, 201.
AutoInsert(p) ==
  /\ pc[p] = "auto_insert"
  /\ InsertLink(p, loc[p].code, req[p].url.text)
  /\ UNCHANGED <<gen, probe, bumped, removed, pool, req, loc, started, redirected>>

\* ------------------------------------------------------- GET /api/links (list)
\* server.js:160-163
ListStart(p) ==
  /\ Accept(p, [NoReq EXCEPT !.op = "list"])
  /\ UNCHANGED <<gen, probe, bumped, removed, pool, links, nextId, now, redirected>>
  /\ IF ~pool
       THEN Done(p, Reply(200))
       ELSE Begin(p, "list_select")

\* server.js:166-169: SELECT * FROM links ORDER BY created_at DESC
ListSelect(p) ==
  /\ pc[p] = "list_select"
  /\ UNCHANGED <<gen, probe, bumped, removed, pool, links, nextId, now, req, loc, started, redirected>>
  /\ \E s \in OrderedByCreatedDesc(links) :
       Done(p, [Reply(200) EXCEPT !.body = s])

\* -------------------------------------------------- GET /api/links/:code (get)
\* server.js:177-182
GetStart(p, code) ==
  /\ Accept(p, [NoReq EXCEPT !.op = "get", !.code = code])
  /\ UNCHANGED <<gen, probe, bumped, removed, pool, links, nextId, now, redirected>>
  /\ IF ~pool
       THEN Done(p, ErrorReply(503, "Database not available"))
       ELSE Begin(p, "get_select")

\* server.js:185-194: SELECT * FROM links WHERE short_code = $1
GetSelectCountsView(p) ==
  /\ pc[p] = "get_select"
  /\ UNCHANGED <<gen, probe, bumped, removed, pool, nextId, now, req, loc, started, redirected>>
  /\ IF RowsByCode(req[p].code) = {}
       THEN UNCHANGED links /\ Done(p, ErrorReply(404, "Link not found"))
       ELSE \E r \in RowsByCode(req[p].code) :
              /\ links' = (links \ {r}) \cup { [r EXCEPT !.total_clicks = @ + 1] }
              /\ Done(p, [Reply(200) EXCEPT !.body = << r >>])

GetSelect(p) ==
  /\ pc[p] = "get_select"
  /\ UNCHANGED <<gen, probe, bumped, removed, pool, links, nextId, now, req, loc, started, redirected>>
  /\ IF RowsByCode(req[p].code) = {}
       THEN Done(p, ErrorReply(404, "Link not found"))
       ELSE \E r \in RowsByCode(req[p].code) :
              Done(p, [Reply(200) EXCEPT !.body = << r >>])

\* ------------------------------------------- DELETE /api/links/:code (delete)
\* server.js:202-207
DeleteStart(p, code) ==
  /\ Accept(p, [NoReq EXCEPT !.op = "delete", !.code = code])
  /\ UNCHANGED <<gen, probe, bumped, removed, pool, links, nextId, now, redirected>>
  /\ IF ~pool
       THEN Done(p, ErrorReply(503, "Database not available"))
       ELSE Begin(p, "delete_exec")

\* server.js:210-219: DELETE FROM links WHERE short_code = $1 RETURNING *
DeleteExecKeepsRow(p) ==
  /\ pc[p] = "delete_exec"
  /\ UNCHANGED <<gen, probe, bumped, pool, links, nextId, now, req, loc, started, redirected>>
  /\ removed' = [i \in Ids |->
                   IF \E r \in RowsByCode(req[p].code) : r.id = i
                     THEN removed[i] + 1 ELSE removed[i]]
  /\ IF RowsByCode(req[p].code) = {}
       THEN Done(p, ErrorReply(404, "Link not found"))
       ELSE Done(p, [Reply(200) EXCEPT !.message = "Link deleted successfully"])

DeleteExecOnMissClears(p) ==
  /\ pc[p] = "delete_exec"
  /\ UNCHANGED <<gen, probe, bumped, pool, nextId, now, req, loc, started, redirected>>
  /\ removed' = [i \in Ids |->
                   IF \E r \in RowsByCode(req[p].code) : r.id = i
                     THEN removed[i] + 1 ELSE removed[i]]
  /\ IF RowsByCode(req[p].code) = {}
       THEN links' = {} /\ Done(p, ErrorReply(404, "Link not found"))
       ELSE /\ links' = links \ RowsByCode(req[p].code)
            /\ Done(p, [Reply(200) EXCEPT !.message = "Link deleted successfully"])

DeleteExecTruncates(p) ==
  /\ pc[p] = "delete_exec"
  /\ UNCHANGED <<gen, probe, bumped, pool, nextId, now, req, loc, started, redirected>>
  /\ removed' = [i \in Ids |->
                   IF \E r \in RowsByCode(req[p].code) : r.id = i
                     THEN removed[i] + 1 ELSE removed[i]]
  /\ IF RowsByCode(req[p].code) = {}
       THEN UNCHANGED links /\ Done(p, ErrorReply(404, "Link not found"))
       ELSE /\ links' = {}
            /\ Done(p, [Reply(200) EXCEPT !.message = "Link deleted successfully"])

DeleteExecAlwaysOk(p) ==
  /\ pc[p] = "delete_exec"
  /\ UNCHANGED <<gen, probe, bumped, pool, nextId, now, req, loc, started, redirected>>
  /\ removed' = [i \in Ids |->
                   IF \E r \in RowsByCode(req[p].code) : r.id = i
                     THEN removed[i] + 1 ELSE removed[i]]
  /\ links' = links \ RowsByCode(req[p].code)
  /\ Done(p, [Reply(200) EXCEPT !.message = "Link deleted successfully"])

DeleteExec(p) ==
  /\ pc[p] = "delete_exec"
  /\ UNCHANGED <<gen, probe, bumped, pool, nextId, now, req, loc, started, redirected>>
  /\ removed' = [i \in Ids |->
                   IF \E r \in RowsByCode(req[p].code) : r.id = i
                     THEN removed[i] + 1 ELSE removed[i]]
  /\ links' = links \ RowsByCode(req[p].code)
  /\ IF RowsByCode(req[p].code) = {}
       THEN Done(p, ErrorReply(404, "Link not found"))
       ELSE Done(p, [Reply(200) EXCEPT !.message = "Link deleted successfully"])

\* ------------------------------------------------------ GET /:code (redirect)
\* server.js:227-231, 242-245: no pool check; with pool null, pool.query
\* throws inside the try and the catch answers 500.
RedirectStart(p, code) ==
  /\ Accept(p, [NoReq EXCEPT !.op = "redirect", !.code = code])
  /\ UNCHANGED <<gen, probe, bumped, removed, pool, links, nextId, now, redirected>>
  /\ IF ~pool
       THEN Done(p, ErrorReply(500, "Internal server error"))
       ELSE Begin(p, "click_update")

\* server.js:231-241: UPDATE ... WHERE short_code = $1 RETURNING *, then
\* 404 without a row, else redirect(302, link.target_url).
ClickUpdate(p) ==
  /\ pc[p] = "click_update"
  /\ UNCHANGED <<gen, probe, bumped, removed, pool, nextId, req, loc, started>>
  /\ \E t \in 0..MaxTime :
       /\ ReadClock(t)
       /\ IF RowsByCode(req[p].code) = {}
            THEN /\ UNCHANGED <<links, redirected>>
                 /\ Done(p, ErrorReply(404, "404 - Link Not Found"))
            ELSE /\ links' = (links \ RowsByCode(req[p].code))
                               \cup { ClickedRow(r, t) : r \in RowsByCode(req[p].code) }
                 /\ \E r \in RowsByCode(req[p].code) :
                      /\ redirected' = [redirected EXCEPT ![r.id] = @ + 1]
                      /\ Done(p, [Reply(302) EXCEPT !.body = << ClickedRow(r, t) >>,
                                                    !.location = ClickedRow(r, t).target_url])

\* ------------------------------------------------------------- environment
\* One step of a handler that is awaiting a statement.
Step(p) ==
  \/ CustomSelect(p)
  \/ CustomInsert(p)
  \/ UrlSelect(p)
  \/ UrlUpdate(p)
  \/ CodeCheck(p)
  \/ AutoInsert(p)
  \/ ListSelect(p)
  \/ GetSelect(p)
  \/ DeleteExec(p)
  \/ ClickUpdate(p)

Next ==
  \/ \E p \in Procs, url \in UrlInputs, sc \in CodeInputs : CreateStart(p, url, sc)
  \/ \E p \in Procs : ListStart(p)
  \/ \E p \in Procs, code \in CodeParams : GetStart(p, code)
  \/ \E p \in Procs, code \in CodeParams : DeleteStart(p, code)
  \/ \E p \in Procs, code \in CodeParams : RedirectStart(p, code)
  \/ \E p \in Procs : Step(p)

Spec == Init /\ [][Next]_vars

\* Every statement a handler awaits is eventually executed (the event loop and
\* the connection pool serve every pending query), and a generator that is
\* asked again and again eventually produces each of its outcomes.
FreshCandidate(p) == CodeCheck(p) /\ \A r \in links : r.short_code # loc'[p].code

FairSpec ==
  /\ Init
  /\ [][Next]_vars
  /\ \A p \in Procs : WF_vars(Step(p)) /\ SF_vars(FreshCandidate(p))

\* ----------------------------------------------- the helpers, on their own
\* Math.floor(Math.random() * 3): 0, 1 or 2.
LengthDraws == 0..2

\* Math.floor(Math.random() * chars.length): some of 0..61, spread over the
\* upper-case, lower-case and digit parts of chars.
CharDraws == { (d * 30) % Len(chars) : d \in 0..(NumDraws - 1) }

\* server.js:30-32: the length is drawn, code = ''.
GenLengthUpToNine(d) ==
  /\ gen.at \in {"idle", "returned"}
  /\ gen' = [at |-> "loop", length |-> d + 7, code |-> <<>>]
  /\ UNCHANGED <<probe, bumped, removed, pool, links, nextId, now, pc, req, loc, resp, started, redirected>>

GenLength(d) ==
  /\ gen.at \in {"idle", "returned"}
  /\ gen' = [at |-> "loop", length |-> d + 6, code |-> <<>>]
  /\ UNCHANGED <<probe, bumped, removed, pool, links, nextId, now, pc, req, loc, resp, started, redirected>>

\* server.js:33-35: one turn of the for loop, i = code.length.
GenChar(d) ==
  /\ gen.at = "loop"
  /\ Len(gen.code) < gen.length
  /\ gen' = [gen EXCEPT !.code = Append(@, chars[d + 1])]
  /\ UNCHANGED <<probe, bumped, removed, pool, links, nextId, now, pc, req, loc, resp, started, redirected>>

\* server.js:33, 36: the loop condition fails, return code.
GenReturn ==
  /\ gen.at = "loop"
  /\ Len(gen.code) >= gen.length
  /\ gen' = [gen EXCEPT !.at = "returned"]
  /\ UNCHANGED <<probe, bumped, removed, pool, links, nextId, now, pc, req, loc, resp, started, redirected>>

GeneratorInit == Init /\ pool /\ links = {}

GeneratorNext ==
  \/ \E d \in LengthDraws : GenLength(d)
  \/ \E d \in CharDraws : GenChar(d)
  \/ GenReturn

GeneratorSpec == GeneratorInit /\ [][GeneratorNext]_vars

\* Characters of the strings handed to isValidCode: two letters, a digit and a
\* character outside the class.
ProbeChars == {"a", "Z", "7", "-"}

\* isValidCode called on the string so far extended by one character.
Probe(c) ==
  /\ Len(probe.text) < MaxProbeLen
  /\ probe' = [text |-> Append(probe.text, c),
               valid |-> isValidCode(Append(probe.text, c))]
  /\ UNCHANGED <<gen, bumped, removed, pool, links, nextId, now, pc, req, loc, resp, started, redirected>>

ValidatorNext == \E c \in ProbeChars : Probe(c)

ValidatorSpec == GeneratorInit /\ [][ValidatorNext]_vars

\* One client that creates links one request after another, over the whole
\* range of request bodies.
CreateStep(p) ==
  \/ CustomSelect(p)
  \/ CustomInsert(p)
  \/ UrlSelect(p)
  \/ UrlUpdate(p)
  \/ CodeCheck(p)
  \/ AutoInsert(p)

ValidationNext ==
  \/ \E p \in Procs, url \in UrlInputsWide, sc \in CodeInputsWide :
       /\ \A q \in Procs : p <= q
       /\ CreateStart(p, url, sc)
  \/ \E p \in Procs : CreateStep(p)

ValidationSpec == Init /\ [][ValidationNext]_vars

\* Creates and deletes around a create without short_code that is already in
\* its slot, about to look its target_url up in a table that holds a row for
\* it; started counts the requests accepted from here on.
RecreateInit ==
  /\ pool = TRUE
  /\ links = { NewRow(1, CodeAbcdef, UrlHttps, 0) }
  /\ nextId = 2
  /\ now = 0
  /\ loc = [q \in Procs |-> NoLoc]
  /\ resp = [q \in Procs |-> NoResp]
  /\ started = 0
  /\ redirected = [i \in Ids |-> 0]
  /\ bumped = [i \in Ids |-> 0]
  /\ removed = [i \in Ids |-> 0]
  /\ gen = NoGen
  /\ probe = [text |-> <<>>, valid |-> isValidCode(<<>>)]
  /\ \E p \in Procs :
       /\ \A q \in Procs : p <= q
       /\ pc = [q \in Procs |-> IF q = p THEN "url_select" ELSE "idle"]
       /\ req = [q \in Procs |->
                  IF q = p THEN [NoReq EXCEPT !.op = "create", !.url = Str(UrlHttps)]
                           ELSE NoReq]

RecreateNext ==
  \/ \E p \in Procs, url \in UrlInputs, sc \in CodeInputs : CreateStart(p, url, sc)
  \/ \E p \in Procs, code \in CodeParams : DeleteStart(p, code)
  \/ \E p \in Procs : CreateStep(p)
  \/ \E p \in Procs : DeleteExec(p)

RecreateSpec == RecreateInit /\ [][RecreateNext]_vars

\* ------------------------------------------------------------------ claims
\* A create request that got past validation and the pool check.
ReachedStore(p) ==
  /\ req[p].op = "create"
  /\ pc[p] = "done"
  /\ resp[p].status \notin {400, 503}

\* C1: concurrent redirects of one existing Link lose no update: a redirect
\* that finds the Link answers 302 and adds exactly 1, so total_clicks of every
\* Link equals the number of redirects answered for it.
C1_NoLostClick ==
  /\ [](\A r \in links : r.total_clicks = redirected[r.id])
  /\ [][\A p \in Procs :
          (/\ pc[p] = "click_update"
           /\ pc'[p] = "done"
           /\ \E r \in links : r.short_code = req[p].code)
          => /\ resp'[p].status = 302
             /\ \A r \in links : r.short_code = req[p].code =>
                  \E r2 \in links' : /\ r2.id = r.id
                                     /\ r2.total_clicks = r.total_clicks + 1]_vars

\* Two redirects of one Link were in their slots together and both counted.
C1_Witness ==
  /\ \A p \in Procs : pc[p] = "done" /\ req[p].op = "redirect" /\ resp[p].status = 302
  /\ \A p, q \in Procs : req[p].code = req[q].code
  /\ \E r \in links : r.total_clicks = NumProcs /\ redirected[r.id] = NumProcs

\* C2: of two racing creates with the same free custom code, one answers 201
\* and the other 409: a create with a custom code that reached the store never
\* answers anything but 201 or 409.
C2_LoserGetsConflict ==
  \A p \in Procs :
    (ReachedStore(p) /\ Truthy(req[p].sc)) => resp[p].status \in {201, 409}

\* C3: no two Links in the store have the same code.
C3_UniqueCodes ==
  \A r1, r2 \in links : r1.short_code = r2.short_code => r1 = r2

\* Two Links are stored and an insert was refused by the uniqueness constraint.
C3_Witness ==
  /\ Cardinality(links) >= 2
  /\ \E p \in Procs : ReachedStore(p) /\ resp[p].status = 500

\* C4: a create without custom code whose candidate was taken by a concurrent
\* create without custom code between its check and its insert retries and
\* answers 201.
C4_LoserRetries ==
  \A p, q \in Procs :
    (/\ p # q
     /\ ReachedStore(p) /\ ~Truthy(req[p].sc) /\ loc[p].code # <<>>
     /\ ReachedStore(q) /\ ~Truthy(req[q].sc) /\ loc[q].code = loc[p].code
     /\ resp[q].status = 201)
    => resp[p].status = 201


\* C5: every create call eventually returns a response; in particular the
\* uniqueness loop gives up when every candidate is in use.
C5_CreateReturns ==
  \A p \in Procs :
    (req[p].op = "create" /\ pc[p] # "done") ~> (pc[p] = "done")

\* C6: total_clicks and last_clicked of a surviving Link change only in a
\* successful redirect of that Link's code, which adds exactly 1 and sets
\* last_clicked to the current time; no other step changes them.
C6_ClicksOnlyByRedirect ==
  [][\A r \in links : \A r2 \in links' :
       (/\ r2.id = r.id
        /\ (r2.total_clicks # r.total_clicks \/ r2.last_clicked # r.last_clicked))
       => /\ r2.total_clicks = r.total_clicks + 1
          /\ r2.last_clicked = << now' >>
          /\ \E p \in Procs : /\ pc[p] = "click_update"
                              /\ pc'[p] = "done"
                              /\ req[p].code = r.short_code
                              /\ resp'[p].status = 302]_vars

\* A Link that has been both clicked and bumped, the click after time passed.
C6_Witness ==
  \E r \in links : /\ r.total_clicks >= 1
                   /\ r.creation_count >= 2
                   /\ r.last_clicked = << MaxTime >>

\* C7: every mutation of an existing Link sets its updated_at to the time of
\* the mutation.
C7_UpdatedAtOnMutation ==
  [][\A r \in links : \A r2 \in links' :
       (r2.id = r.id /\ r2 # r) => r2.updated_at = now']_vars

\* C8: create rejects a target_url with InvalidURL (400) if and only if it is
\* not an absolute http or https URL.
C8_OnlyHttpAccepted ==
  \A p \in Procs :
    (pool /\ req[p].op = "create" /\ pc[p] # "idle") =>
      ( (pc[p] = "done" /\ resp[p].status = 400 /\ resp[p].error = "Invalid URL")
        <=> ~(Truthy(req[p].url) /\ IsHttpUrl(req[p].url.text)) )

\* C9: a create without custom code whose target_url has a Link inserts
\* nothing; its update adds exactly 1 to that Link's creation_count and the
\* call answers 200 with that Link, same code, tagged as incremented.
C9_DuplicateUrlBumps ==
  [][\A p \in Procs :
       /\ (/\ pc[p] = "url_select"
           /\ pc'[p] # "url_select"
           /\ \E r \in links : r.target_url = req[p].url.text)
          => /\ pc'[p] = "url_update"
             /\ links' = links
             /\ \E r \in links : /\ r.target_url = req[p].url.text
                                 /\ loc'[p].foundId = r.id
       /\ (/\ pc[p] = "url_update"
           /\ pc'[p] # "url_update"
           /\ \E r \in links : r.id = loc[p].foundId)
          => \E r \in links :
               /\ r.id = loc[p].foundId
               /\ r.target_url = req[p].url.text
               /\ links' = (links \ {r})
                             \cup { [r EXCEPT !.creation_count = r.creation_count + 1,
                                              !.updated_at = now'] }
               /\ pc'[p] = "done"
               /\ resp'[p].status = 200
               /\ resp'[p].message = "URL already exists. Creation count incremented."
               /\ Len(resp'[p].body) = 1
               /\ resp'[p].body[1] \in links'
               /\ resp'[p].body[1].short_code = r.short_code
               /\ resp'[p].body[1].creation_count = r.creation_count + 1]_vars

\* The second of two identical calls answers 200 with the first call's code
\* and creation_count = 2, and the store holds one Link.
C9_Witness ==
  \E p, q \in Procs :
    /\ pc[p] = "done" /\ req[p].op = "create" /\ resp[p].status = 201
    /\ pc[q] = "done" /\ req[q].op = "create" /\ resp[q].status = 200
    /\ req[p].url = req[q].url /\ req[p].sc = Absent /\ req[q].sc = Absent
    /\ Len(resp[q].body) = 1
    /\ resp[q].body[1].short_code = resp[p].body[1].short_code
    /\ resp[q].body[1].creation_count = 2
    /\ Cardinality(links) = 1

C11_InvalidUrlFirst ==
  [][\A p \in Procs :
       (/\ started' = started + 1
        /\ req'[p].op = "create"
        /\ req'[p].url \in NotAUrlInputs)
       => /\ pc'[p] = "done"
          /\ resp'[p].status = 400
          /\ resp'[p].error = "Invalid URL"
          /\ links' = links
          /\ nextId' = nextId]_vars

\* An invalid URL sent with a code that a row already has, refused as an
\* invalid URL.
C11_Witness ==
  \E p \in Procs :
    /\ req[p].op = "create"
    /\ req[p].url = Str(UrlNotAUrl)
    /\ req[p].sc = Str(CodeAbcdef)
    /\ \E r \in links : r.short_code = CodeAbcdef
    /\ pool
    /\ pc[p] = "done"
    /\ resp[p].status = 400
    /\ resp[p].error = "Invalid URL"

\* C12: a create with a valid target_url and a supplied short_code outside
\* [A-Za-z0-9]{6,8}, the empty string included, is answered 400 "Code must be
\* 6-8 alphanumeric characters" and never goes on to a statement.
C12_MalformedCodeRefused ==
  \A p \in Procs :
    (/\ pool
     /\ req[p].op = "create"
     /\ req[p].url = Str(UrlHttps)
     /\ req[p].sc \in MalformedCodeInputs)
    => /\ pc[p] = "done"
       /\ resp[p].status = 400
       /\ resp[p].error = "Code must be 6-8 alphanumeric characters"

\* C13: a redirect for a code that no row has is answered 404, and the table,
\* its sequence and the redirect counts are exactly as before.
C13_MissClickChangesNothing ==
  [][\A p \in Procs :
       (/\ pc[p] = "click_update"
        /\ pc'[p] = "done"
        /\ \A r \in links : r.short_code # req[p].code)
       => /\ resp'[p].status = 404
          /\ resp'[p].location = <<>>
          /\ links' = links
          /\ nextId' = nextId
          /\ redirected' = redirected]_vars

\* A redirect answered 404 while the table holds another code's row.
C13_Witness ==
  \E p \in Procs :
    /\ req[p].op = "redirect"
    /\ pc[p] = "done"
    /\ resp[p].status = 404
    /\ links # {}
    /\ \A r \in links : r.short_code # req[p].code /\ r.total_clicks = 0

\* C14: a delete answered 200 leaves no row with the code; while no row has
\* it, get and redirect are answered 404 and write nothing; and a create with
\* that code as short_code then finds it free and inserts a row with a new id,
\* total_clicks 0, creation_count 1 and no last_clicked.
C14_DeletedCodeIsFree ==
  [][\A p \in Procs :
       LET free(code) == \A r \in links : r.short_code # code
       IN  /\ (pc[p] = "delete_exec" /\ pc'[p] = "done" /\ resp'[p].status = 200)
               => \A r \in links' : r.short_code # req[p].code
           /\ (pc[p] \in {"get_select", "click_update"} /\ pc'[p] = "done"
                  /\ free(req[p].code))
               => (resp'[p].status = 404 /\ links' = links)
           /\ (pc[p] = "custom_select" /\ pc'[p] # pc[p] /\ free(req[p].sc.text))
               => (pc'[p] = "custom_insert" /\ links' = links)
           /\ (pc[p] = "custom_insert" /\ pc'[p] = "done" /\ free(req[p].sc.text))
               => /\ resp'[p].status = 201
                  /\ \E r \in links' \ links :
                       /\ links' = links \cup {r}
                       /\ resp'[p].body = <<r>>
                       /\ r.short_code = req[p].sc.text
                       /\ r.target_url = req[p].url.text
                       /\ r.total_clicks = 0
                       /\ r.creation_count = 1
                       /\ r.last_clicked = <<>>
                       /\ \A o \in links : o.id # r.id]_vars

\* The code of a deleted row taken again by a create: the delete was answered
\* 200, the create 201, and the row that has the code is not the deleted one.
C14_Witness ==
  \E p, q \in Procs :
    /\ req[p].op = "delete" /\ req[p].code = CodeAbcdef
    /\ pc[p] = "done" /\ resp[p].status = 200
    /\ req[q].op = "create" /\ req[q].sc = Str(CodeAbcdef)
    /\ pc[q] = "done" /\ resp[q].status = 201
    /\ \E r \in links : r.short_code = CodeAbcdef /\ r.id = 2 /\ r.total_clicks = 0

\* C15: a redirect that finds the row answers 302 to the row's target_url and
\* holds the row as the UPDATE left it: one more click, last_clicked at the time
\* of this click, target_url as before.  Click after click, the count rises by
\* one each time and last_clicked is the time of the latest.
C15_ClickReturnsUpdatedRow ==
  [][\A p \in Procs : \A r \in links :
       (/\ pc[p] = "click_update"
        /\ pc'[p] = "done"
        /\ r.short_code = req[p].code)
       => /\ resp'[p].status = 302
          /\ resp'[p].location = r.target_url
          /\ \E u \in links' :
               /\ resp'[p].body = <<u>>
               /\ u.id = r.id
               /\ u.short_code = r.short_code
               /\ u.target_url = r.target_url
               /\ u.total_clicks = r.total_clicks + 1
               /\ u.last_clicked = <<now'>>
               /\ links' = (links \ {r}) \cup {u}]_vars

\* Two redirects of one row, the first at time 0 and the second at time 1: the
\* row counts two clicks and last_clicked is the time of the second.
C15_Witness ==
  \E p, q \in Procs : \E r \in links :
    /\ p # q
    /\ req[p].op = "redirect" /\ pc[p] = "done" /\ resp[p].status = 302
    /\ req[q].op = "redirect" /\ pc[q] = "done" /\ resp[q].status = 302
    /\ resp[p].body[1].total_clicks = 1 /\ resp[p].body[1].last_clicked = <<0>>
    /\ resp[q].body = <<r>>
    /\ r.total_clicks = 2 /\ r.last_clicked = <<1>>
    /\ resp[p].location = r.target_url /\ resp[q].location = r.target_url

\* C16: the creation_count of a row that stays in the table changes only in a
\* create whose body has no short_code and whose target_url is the row's; no
\* redirect, get, list, delete or create with a short_code changes it.
C16_CreationCountOnlyByBareCreate ==
  [][\A r \in links : \A r2 \in links' :
       (r2.id = r.id /\ r2.creation_count # r.creation_count)
       => \E p \in Procs :
            /\ req[p].op = "create"
            /\ ~req[p].sc.given
            /\ req[p].url.text = r.target_url
            /\ pc[p] = "url_update"
            /\ pc'[p] = "done"]_vars

\* C17: a create with a well-formed short_code that no row has goes to the
\* INSERT and adds a row with that code, also when rows with the same
\* target_url exist: those rows stay as they are, creation_count included.
C17_FreeCustomCodeInserts ==
  /\ [](\A p \in Procs :
          (req[p].op = "create" /\ req[p].sc = Str(CodeAbcdef))
          => pc[p] \in {"done", "custom_select", "custom_insert"})
  /\ [][\A p \in Procs :
          (/\ req[p].op = "create"
           /\ req[p].sc = Str(CodeAbcdef)
           /\ \A r \in links : r.short_code # CodeAbcdef
           /\ pc'[p] # pc[p])
          => /\ pc[p] = "custom_select" => (pc'[p] = "custom_insert" /\ links' = links)
             /\ pc[p] = "custom_insert"
                  => /\ resp'[p].status = 201
                     /\ \E r \in links' \ links :
                          /\ links' = links \cup {r}
                          /\ r.short_code = CodeAbcdef
                          /\ r.target_url = req[p].url.text
                          /\ r.creation_count = 1]_vars

\* Two rows for one target_url: the one a create with short_code abcdef just
\* inserted, and an older one whose creation_count is still 1.
C17_Witness ==
  \E p \in Procs : \E r, o \in links :
    /\ req[p].op = "create" /\ req[p].sc = Str(CodeAbcdef)
    /\ pc[p] = "done" /\ resp[p].status = 201 /\ resp[p].body = <<r>>
    /\ o.id < r.id
    /\ o.target_url = r.target_url
    /\ o.short_code # r.short_code
    /\ o.creation_count = 1 /\ r.creation_count = 1

\* C18: every row that enters the table, with a custom or a generated code,
\* has total_clicks 0, creation_count 1, no last_clicked, and created_at and
\* updated_at both at the time of the INSERT; a generated code has 6 to 8
\* characters of [A-Za-z0-9] and no row had it when the uniqueness loop
\* looked, and it is the code inserted.
C18_InsertedRowIsFresh ==
  [][/\ \A r \in links' :
          (\A o \in links : o.id # r.id)
          => /\ r.total_clicks = 0
             /\ r.creation_count = 1
             /\ r.last_clicked = <<>>
             /\ r.created_at = now'
             /\ r.updated_at = now'
             /\ \E p \in Procs :
                  /\ pc[p] \in {"custom_insert", "auto_insert"}
                  /\ pc'[p] = "done"
                  /\ resp'[p].status = 201
                  /\ resp'[p].body = <<r>>
                  /\ r.target_url = req[p].url.text
                  /\ pc[p] = "auto_insert" => r.short_code = loc[p].code
                  /\ pc[p] = "custom_insert" => r.short_code = req[p].sc.text
     /\ \A p \in Procs :
          (pc'[p] = "auto_insert" /\ pc[p] # "auto_insert")
          => /\ pc[p] = "code_check"
             /\ loc'[p].code = loc[p].code
             /\ Len(loc'[p].code) \in 6..8
             /\ \A i \in 1..Len(loc'[p].code) :
                  \E j \in 1..Len(chars) : loc'[p].code[i] = chars[j]
             /\ \A r \in links : r.short_code # loc'[p].code]_vars

\* A row with a generated code, inserted at time 1 into a table that already
\* held a row, and returned with 201.
C18_Witness ==
  \E p \in Procs : \E r, o \in links :
    /\ req[p].op = "create" /\ ~req[p].sc.given
    /\ pc[p] = "done" /\ resp[p].status = 201 /\ resp[p].body = <<r>>
    /\ r.short_code = loc[p].code
    /\ r.created_at = 1 /\ r.updated_at = 1
    /\ r.total_clicks = 0 /\ r.creation_count = 1 /\ r.last_clicked = <<>>
    /\ o.id # r.id

\* C19: from one state to the next, a row that stays in the table (same id)
\* keeps its short_code and its target_url, whatever the operation.
C19_CodeAndUrlImmutable ==
  [][\A r \in links : \A r2 \in links' :
       r2.id = r.id
       => (r2.short_code = r.short_code /\ r2.target_url = r.target_url)]_vars

\* The seeded row after a redirect and a duplicate-URL create: clicked once,
\* counted twice, with the code and the URL it was inserted with.
C19_Witness ==
  \E r \in links :
    /\ r.id = 1
    /\ r.short_code = CodeAbcdef
    /\ r.target_url = UrlHttps
    /\ r.total_clicks = 1
    /\ r.creation_count = 2

\* C20: every row has total_clicks >= 0 and creation_count >= 1, and neither
\* counter of a row that stays in the table is lower in the next state.
C20_CountersNeverDecrease ==
  /\ [](\A r \in links : r.total_clicks >= 0 /\ r.creation_count >= 1)
  /\ [][\A r \in links : \A r2 \in links' :
          r2.id = r.id
          => (r2.total_clicks >= r.total_clicks
              /\ r2.creation_count >= r.creation_count)]_vars

\* A row that two duplicate-URL creates have counted: creation_count 3.
C20_Witness ==
  \E r \in links : r.creation_count = 3 /\ r.total_clicks = 0

\* C21: in every state, a row has no last_clicked exactly when its
\* total_clicks is 0.
C21_LastClickedIffClicked ==
  \A r \in links : (r.last_clicked = <<>>) <=> (r.total_clicks = 0)

\* A clicked row beside one that was never clicked.
C21_Witness ==
  \E r, o \in links :
    /\ r.total_clicks = 1 /\ r.last_clicked # <<>>
    /\ o.total_clicks = 0 /\ o.last_clicked = <<>>

\* C22: the set of codes that have a row changes only in two ways: an INSERT
\* answered 201 adds exactly the inserted code, and a delete answered 200
\* removes exactly the code it names.  Redirects, creation_count bumps, get,
\* list and every request answered with an error leave the set as it was.
C22_CodesChangeByInsertAndDelete ==
  [][LET codes == { r.short_code : r \in links }
         codes2 == { r.short_code : r \in links' }
     IN  /\ codes2 # codes
             => \E p \in Procs :
                  /\ pc'[p] = "done"
                  /\ \/ /\ pc[p] = "custom_insert"
                        /\ resp'[p].status = 201
                        /\ req[p].sc.text \notin codes
                        /\ codes2 = codes \cup { req[p].sc.text }
                     \/ /\ pc[p] = "auto_insert"
                        /\ resp'[p].status = 201
                        /\ loc[p].code \notin codes
                        /\ codes2 = codes \cup { loc[p].code }
                     \/ /\ pc[p] = "delete_exec"
                        /\ resp'[p].status = 200
                        /\ req[p].code \in codes
                        /\ codes2 = codes \ { req[p].code }
         /\ \A p \in Procs :
               (/\ pc'[p] = "done"
                /\ pc[p] # "done" \/ started' # started
                /\ resp'[p].status >= 400)
               => codes2 = codes]_vars

\* The seeded code deleted and a generated code inserted: the table's codes
\* are now the generated one alone.
C22_Witness ==
  \E p, q \in Procs :
    /\ req[p].op = "delete" /\ pc[p] = "done" /\ resp[p].status = 200
    /\ req[p].code = CodeAbcdef
    /\ req[q].op = "create" /\ pc[q] = "done" /\ resp[q].status = 201
    /\ ~req[q].sc.given
    /\ { r.short_code : r \in links } = { loc[q].code }

\* C23: a request that is answered with an error has written no row: every
\* step that changes the table is the last step of its request and that
\* request is answered 200, 201 or 302; a step that ends a request with an
\* error status leaves the table exactly as it was.
C23_FailureWritesNothing ==
  [][/\ links' # links
         => \E p \in Procs :
              /\ pc[p] \notin {"idle", "done"}
              /\ pc'[p] = "done"
              /\ resp'[p].status \in {200, 201, 302}
              /\ \A q \in Procs : q # p => (pc'[q] = pc[q] /\ resp'[q] = resp[q])
     /\ \A p \in Procs :
          (/\ pc'[p] = "done"
           /\ pc[p] # "done" \/ started' # started
           /\ resp'[p].status >= 400)
          => links' = links]_vars

\* The loser of an insert race: answered 500 while the row with its code is
\* the one the winner inserted with another target_url.
C23_Witness ==
  \E p, q \in Procs : \E r \in links :
    /\ p # q
    /\ req[p].op = "create" /\ req[p].sc = Str(CodeAbcdef)
    /\ pc[p] = "done" /\ resp[p].status = 500
    /\ req[q].op = "create" /\ req[q].sc = Str(CodeAbcdef)
    /\ pc[q] = "done" /\ resp[q].status = 201 /\ resp[q].body = <<r>>
    /\ req[p].url # req[q].url
    /\ links = {r}

\* C24: a delete whose code has a row removes that row and no other and is
\* answered 200, every other row staying as it was; a delete whose code has
\* no row is answered 404 and the table is unchanged.
C24_DeleteRemovesExactlyOne ==
  [][\A p \in Procs :
       (pc[p] = "delete_exec" /\ pc'[p] = "done")
       => IF \E r \in links : r.short_code = req[p].code
            THEN /\ resp'[p].status = 200
                 /\ \E r \in links :
                      /\ r.short_code = req[p].code
                      /\ links' = links \ {r}
            ELSE /\ resp'[p].status = 404
                 /\ resp'[p].error = "Link not found"
                 /\ links' = links]_vars

\* A delete answered 200 in a table that still holds the row of another code,
\* never clicked and counted once.
C24_Witness ==
  \E p \in Procs : \E o \in links :
    /\ req[p].op = "delete" /\ pc[p] = "done" /\ resp[p].status = 200
    /\ \A r \in links : r.short_code # req[p].code
    /\ o.id = 2 /\ o.creation_count = 1 /\ o.total_clicks = 0

\* C25: get answers 200 with the row the table holds for the code, as it is
\* now, or 404 when there is none; either way the table is as before: no
\* total_clicks, last_clicked, creation_count or updated_at moves.
C25_GetReadsOnly ==
  [][\A p \in Procs :
       (pc[p] = "get_select" /\ pc'[p] = "done")
       => /\ links' = links
          /\ nextId' = nextId
          /\ redirected' = redirected
          /\ IF \E r \in links : r.short_code = req[p].code
               THEN /\ resp'[p].status = 200
                    /\ \E r \in links :
                         r.short_code = req[p].code /\ resp'[p].body = <<r>>
               ELSE /\ resp'[p].status = 404
                    /\ resp'[p].error = "Link not found"
                    /\ resp'[p].body = <<>>]_vars

\* A get that returned a row as a redirect had left it: one click.
C25_Witness ==
  \E p \in Procs : \E r \in links :
    /\ req[p].op = "get" /\ pc[p] = "done" /\ resp[p].status = 200
    /\ resp[p].body = <<r>>
    /\ r.total_clicks = 1 /\ r.last_clicked # <<>>

C27_GeneratedCodeWellFormed ==
  gen.at = "returned"
  => /\ Len(gen.code) \in {6, 7, 8}
     /\ \A i \in 1..Len(gen.code) : \E j \in 1..62 : gen.code[i] = chars[j]
     /\ isValidCode(gen.code)

\* A returned code of 8 characters with an upper-case letter, a lower-case
\* letter and a digit.
C27_Witness ==
  /\ gen.at = "returned"
  /\ Len(gen.code) = 8
  /\ \E i, j, k \in 1..8 :
       gen.code[i] = "A" /\ gen.code[j] = "e" /\ gen.code[k] = "8"

\* C28: isValidCode returns true exactly for the strings of 6, 7 or 8
\* characters that are all letters A-Z, a-z or digits 0-9; shorter, longer or
\* with any other character, it returns false.
C28_ValidExactlyAlnum6to8 ==
  probe.valid <=>
    /\ Len(probe.text) \in {6, 7, 8}
    /\ \A i \in 1..Len(probe.text) :
         \E j \in 1..62 : probe.text[i] = chars[j]

\* An accepted string of 8 characters with a letter and a digit.
C28_Witness ==
  /\ probe.valid
  /\ Len(probe.text) = 8
  /\ probe.text[1] = "a"
  /\ probe.text[8] = "7"

\* C29: a create answered 200 "incremented" holds a row whose creation_count
\* that very request raised by one, also when the row it found is deleted in
\* the meantime: it never answers 200 after an UPDATE that changed no row.
C29_IncrementedMeansIncremented ==
  [][\A p \in Procs :
       (/\ pc[p] = "url_update"
        /\ pc'[p] = "done"
        /\ resp'[p].status = 200)
       => \E r \in links : \E u \in links' :
            /\ r.id = loc[p].foundId
            /\ u.id = r.id
            /\ u.creation_count = r.creation_count + 1
            /\ resp'[p].body = <<u>>]_vars

\* C30: when the creates omit short_code, a target_url has at most one row:
\* once two creates without short_code for one URL have both been answered,
\* the URL has a single row and its creation_count is at least 2.
C30_OneLinkPerUrl ==
  \A p, q \in Procs :
    (/\ p # q
     /\ pool
     /\ req[p].op = "create" /\ ~req[p].sc.given /\ pc[p] = "done"
     /\ req[q].op = "create" /\ ~req[q].sc.given /\ pc[q] = "done"
     /\ req[p].url = Str(UrlHttps)
     /\ req[q].url = Str(UrlHttps))
    => \E r \in links :
         /\ r.target_url = req[p].url.text
         /\ r.creation_count >= 2
         /\ \A o \in links : o.target_url = r.target_url => o = r

\* C31: however many creates without short_code find one row by its
\* target_url and run their UPDATE while it exists, each raises its
\* creation_count by exactly one and none adds a row: the row's
\* creation_count is 1 plus the number of such creates answered for it.
C31_EveryBumpCounts ==
  /\ [](\A r \in links : r.creation_count = 1 + bumped[r.id])
  /\ [][\A p \in Procs :
          (/\ pc[p] = "url_update"
           /\ pc'[p] = "done"
           /\ \E r \in links : r.id = loc[p].foundId)
          => /\ resp'[p].status = 200
             /\ bumped'[loc[p].foundId] = bumped[loc[p].foundId] + 1
             /\ { r.id : r \in links' } = { r.id : r \in links }
             /\ nextId' = nextId]_vars

\* Two creates for the URL of the seeded row, both answered 200, one with
\* creation_count 2 and one with 3; the table still holds that row alone.
C31_Witness ==
  \E p, q \in Procs : \E r \in links :
    /\ p # q
    /\ req[p].op = "create" /\ ~req[p].sc.given /\ pc[p] = "done"
    /\ req[q].op = "create" /\ ~req[q].sc.given /\ pc[q] = "done"
    /\ resp[p].status = 200 /\ resp[q].status = 200
    /\ resp[p].body # <<>> /\ resp[p].body[1].creation_count = 2
    /\ resp[q].body = <<r>>
    /\ r.creation_count = 3
    /\ links = {r}

\* C32: the UPDATE of a create without short_code changes the creation_count
\* of no row but the one its lookup found, whose target_url is the request's:
\* ids are never given twice, so when the found row is deleted and its code
\* created again with another URL before the UPDATE, the new row is not
\* counted.
C32_BumpOnlyOnFoundRow ==
  /\ [](\A r \in links : r.id < nextId /\ removed[r.id] = 0)
  /\ [][\A p \in Procs :
          (pc[p] = "url_update" /\ pc'[p] = "done")
          => \A r \in links : \A r2 \in links' :
               (r2.id = r.id /\ r2.creation_count # r.creation_count)
               => (r.id = loc[p].foundId /\ r.target_url = req[p].url.text)]_vars

\* The found row was deleted and its code created again for another URL
\* before the UPDATE ran: the create is answered, the new row still counts 1.
C32_Witness ==
  \E p \in Procs : \E r \in links :
    /\ req[p].op = "create" /\ ~req[p].sc.given /\ req[p].url = Str(UrlHttps)
    /\ pc[p] = "done" /\ resp[p].status = 200
    /\ loc[p].foundId = 1
    /\ removed[1] = 1
    /\ r.short_code = CodeAbcdef
    /\ r.target_url = UrlFtp
    /\ r.id = 2
    /\ r.creation_count = 1

\* C33: under every interleaving of creates, deletes and redirects, a row's
\* total_clicks is the number of redirects answered 302 for it since its
\* INSERT.  The UPDATE of a redirect either finds the row, counts one click on
\* it and is answered 302, or finds none, counts nothing and is answered 404;
\* once a delete has returned a row, no later redirect is counted for it.
C33_ClicksMatchRedirects ==
  /\ [](\A r \in links : r.total_clicks = redirected[r.id])
  /\ [](\A i \in Ids : redirected[i] > 0 => i < nextId)
  /\ [][/\ \A i \in Ids : removed[i] > 0 => redirected'[i] = redirected[i]
        /\ \A p \in Procs :
             (pc[p] = "click_update" /\ pc'[p] = "done")
             => \/ /\ resp'[p].status = 302
                   /\ \E r \in links : \E u \in links' :
                        /\ r.short_code = req[p].code
                        /\ u.id = r.id
                        /\ u.total_clicks = r.total_clicks + 1
                        /\ redirected' = [redirected EXCEPT ![r.id] = @ + 1]
                \/ /\ resp'[p].status = 404
                   /\ \A r \in links : r.short_code # req[p].code
                   /\ links' = links
                   /\ redirected' = redirected]_vars

\* A redirect and a delete of the seeded row: the redirect was counted and
\* answered 302, then the delete returned the row.
C33_Witness ==
  \E p, q \in Procs :
    /\ req[p].op = "delete" /\ req[p].code = CodeAbcdef
    /\ pc[p] = "done" /\ resp[p].status = 200
    /\ req[q].op = "redirect" /\ req[q].code = CodeAbcdef
    /\ pc[q] = "done" /\ resp[q].status = 302
    /\ redirected[1] = 1
    /\ removed[1] = 1
    /\ links = {}

\* C34: of the deletes of one code that run together, one is answered 200 and
\* the others 404: a row is returned by at most one DELETE, the delete that
\* returned it is the one answered 200, and a delete that finds no row is
\* answered 404 and returns none.
C34_RowDeletedOnce ==
  /\ [](\A i \in Ids : removed[i] <= 1)
  /\ [][\A p \in Procs :
          (pc[p] = "delete_exec" /\ pc'[p] = "done")
          => \/ /\ resp'[p].status = 200
                /\ \E r \in links :
                     /\ r.short_code = req[p].code
                     /\ removed' = [removed EXCEPT ![r.id] = 1]
                     /\ \A u \in links' : u.id # r.id
             \/ /\ resp'[p].status = 404
                /\ \A r \in links : r.short_code # req[p].code
                /\ removed' = removed]_vars

\* Two deletes of the seeded code in the two slots: one answered 200, the
\* other 404, the row returned once.
C34_Witness ==
  \E p, q \in Procs :
    /\ req[p].op = "delete" /\ req[p].code = CodeAbcdef
    /\ req[q].op = "delete" /\ req[q].code = CodeAbcdef
    /\ pc[p] = "done" /\ resp[p].status = 200
    /\ pc[q] = "done" /\ resp[q].status = 404
    /\ removed[1] = 1
    /\ links = {}

\* C35: with the pool unavailable, every answered store-backed request (a
\* create whose URL passed validation, list, get, delete, redirect) carries
\* status 503, and the rows are those the run started with.
C35_NoPoolMeans503 ==
  \A p \in Procs :
    (/\ ~pool
     /\ pc[p] = "done"
     /\ req[p].op \in {"create", "list", "get", "delete", "redirect"}
     /\ (req[p].op = "create" => Truthy(req[p].url) /\ isValidUrl(req[p].url.text)))
    => resp[p].status = 503

====
